---- MODULE Spec2Model ----
(***************************************************************************)
(* Model of langchain/automaton/chat_agent.py: the action codec            *)
(* (ActionEncoder), the prompt projection and the bounded agent loop        *)
(* (ChatAgent.run).                                                         *)
(*                                                                          *)
(* A text is a sequence of characters.  The characters of the alphabet are  *)
(* one-token strings; the two delimiter tags and a few words ("action",     *)
(* "action_input", "Final Answer") are atomic characters, so a text stays   *)
(* short.  The alphabet holds no raw backslash; the only escape is the      *)
(* character ESCQ, the two-character sequence backslash-quote that Python's *)
(* repr emits for a string holding both kinds of quote.                     *)
(***************************************************************************)
EXTENDS Integers, Sequences, FiniteSets, TLC

VARIABLES message_log,     \* the MessageLog handed to run
          pc,              \* "start", "loop", "returned", "raised" ("off": no run)
          iter,            \* iterations of the for loop begun so far
          max_iterations,  \* self.max_iterations
          err,             \* the exception run raised, "" if none
          calls,           \* history: number of model invocations
          seed,            \* history: the log as run received it
          hist,            \* history: per iteration, the reply and the messages
          codec_in, codec_text, codec_out, codec_pc,
          prompt_log,      \* the log handed to prompt_generator
          prompt_out,      \* the list prompt_generator returned last
          prompt_first,    \* history: the list it returned the first time
          prompt_pc,       \* "start", "once", "twice" ("off": no projection)
          runs             \* two runs side by side: run id -> state of the run

vars == <<message_log, pc, iter, max_iterations, err, calls, seed, hist,
          codec_in, codec_text, codec_out, codec_pc,
          prompt_log, prompt_out, prompt_first, prompt_pc, runs>>

loop_vars == <<message_log, pc, iter, max_iterations, err, calls, seed, hist>>

codec_vars == <<codec_in, codec_text, codec_out, codec_pc>>

prompt_vars == <<prompt_log, prompt_out, prompt_first, prompt_pc>>

PromptOff ==
  /\ prompt_log = <<>>
  /\ prompt_out = <<>>
  /\ prompt_first = <<>>
  /\ prompt_pc = "off"

PairOff == runs = <<>>

(***************************************************************************)
(* Characters                                                               *)
(***************************************************************************)
OPEN == "<action>"
CLOSE == "</action>"
LB == "{"
RB == "}"
COLON == ":"
COMMA == ","
SQ == "'"
DQ == "\""
ESCQ == "\\'"
DIGIT == "1"
NONE == "None"

Min(S) == CHOOSE x \in S : \A y \in S : x <= y

(***************************************************************************)
(* Python values, as far as the literals of the alphabet can denote them.   *)
(* Every value has the same four fields; d is the dict as a sequence of     *)
(* key/value pairs in insertion order (a set: its elements as the keys).    *)
(***************************************************************************)
VStr(s) == [t |-> "str", s |-> s, n |-> 0, d |-> <<>>]
VInt(n) == [t |-> "int", s |-> <<>>, n |-> n, d |-> <<>>]
VNone == [t |-> "none", s |-> <<>>, n |-> 0, d |-> <<>>]
VDict(d) == [t |-> "dict", s |-> <<>>, n |-> 0, d |-> d]
VSet(d) == [t |-> "set", s |-> <<>>, n |-> 0, d |-> d]

\* Python truthiness of a value (the operand of `or`).
Falsy(v) ==
  \/ v.t = "none"
  \/ v.t = "str" /\ v.s = <<>>
  \/ v.t = "int" /\ v.n = 0
  \/ v.t = "dict" /\ v.d = <<>>

\* d[k] = v on a dict: an existing key keeps its position, a new key appends.
DictPut(d, k, v) ==
  IF \E j \in 1..Len(d) : d[j].k = k
  THEN [j \in 1..Len(d) |-> IF d[j].k = k THEN [k |-> k, v |-> v] ELSE d[j]]
  ELSE Append(d, [k |-> k, v |-> v])

HasKey(d, k) == \E j \in 1..Len(d) : d[j].k = k

DictGet(d, k) == d[CHOOSE j \in 1..Len(d) : d[j].k = k].v

(***************************************************************************)
(* ast.literal_eval on the alphabet: string literals in either quote, with  *)
(* adjacent literals concatenated, decimal integers, None, dict displays    *)
(* and set displays.  Anything else raises.                                 *)
(***************************************************************************)
Fail == [ok |-> FALSE, val |-> VNone, pos |-> 0]

Unescape(s) == [j \in 1..Len(s) |-> IF s[j] = ESCQ THEN SQ ELSE s[j]]

\* a run of adjacent string literals from position p on, concatenated; three
\* quotes in a row open a triple-quoted literal
RECURSIVE ParseStrings(_, _, _)
ParseStrings(toks, p, acc) ==
  IF p > Len(toks) \/ toks[p] \notin {SQ, DQ}
  THEN [ok |-> TRUE, val |-> VStr(acc), pos |-> p]
  ELSE IF p + 2 <= Len(toks) /\ toks[p + 1] = toks[p] /\ toks[p + 2] = toks[p]
  THEN LET ends == {j \in (p + 3)..(Len(toks) - 2) :
                      /\ toks[j] = toks[p]
                      /\ toks[j + 1] = toks[p]
                      /\ toks[j + 2] = toks[p]}
       IN IF ends = {} THEN Fail
          ELSE LET e == Min(ends)
               IN ParseStrings(toks, e + 3,
                               acc \o Unescape(SubSeq(toks, p + 3, e - 1)))
  ELSE LET ends == {j \in (p + 1)..Len(toks) : toks[j] = toks[p]}
       IN IF ends = {} THEN Fail
          ELSE LET e == Min(ends)
               IN ParseStrings(toks, e + 1,
                               acc \o Unescape(SubSeq(toks, p + 1, e - 1)))

RECURSIVE ParseInt(_, _, _)
ParseInt(toks, p, acc) ==
  IF p <= Len(toks) /\ toks[p] = DIGIT
  THEN ParseInt(toks, p + 1, 10 * acc + 1)
  ELSE [ok |-> TRUE, val |-> VInt(acc), pos |-> p]

RECURSIVE ParseValue(_, _)
RECURSIVE ParsePairs(_, _, _)
RECURSIVE ParseElems(_, _, _)

ParseValue(toks, p) ==
  IF p > Len(toks) THEN Fail
  ELSE IF toks[p] \in {SQ, DQ} THEN ParseStrings(toks, p, <<>>)
  ELSE IF toks[p] = DIGIT THEN ParseInt(toks, p, 0)
  ELSE IF toks[p] = NONE THEN [ok |-> TRUE, val |-> VNone, pos |-> p + 1]
  ELSE IF toks[p] = LB
       THEN IF p + 1 <= Len(toks) /\ toks[p + 1] = RB
            THEN [ok |-> TRUE, val |-> VDict(<<>>), pos |-> p + 2]
            ELSE LET first == ParseValue(toks, p + 1)
                 IN IF first.ok /\ first.pos <= Len(toks)
                       /\ toks[first.pos] \in {COMMA, RB}
                    THEN ParseElems(toks, p + 1, <<>>)
                    ELSE ParsePairs(toks, p + 1, <<>>)
  ELSE Fail

\* the pairs of a dict display from position p on, up to the closing brace;
\* a key must be hashable
ParsePairs(toks, p, acc) ==
  LET key == ParseValue(toks, p)
  IN IF ~key.ok \/ key.val.t \in {"dict", "set"} THEN Fail
     ELSE IF key.pos > Len(toks) \/ toks[key.pos] # COLON THEN Fail
     ELSE LET item == ParseValue(toks, key.pos + 1)
          IN IF ~item.ok \/ item.pos > Len(toks) THEN Fail
             ELSE LET d == DictPut(acc, key.val, item.val)
                      q == item.pos
                  IN IF toks[q] = RB
                     THEN [ok |-> TRUE, val |-> VDict(d), pos |-> q + 1]
                     ELSE IF toks[q] # COMMA THEN Fail
                     ELSE IF q + 1 <= Len(toks) /\ toks[q + 1] = RB
                          THEN [ok |-> TRUE, val |-> VDict(d), pos |-> q + 2]
                          ELSE ParsePairs(toks, q + 1, d)

\* the elements of a set display from position p on; an element must be
\* hashable
ParseElems(toks, p, acc) ==
  LET item == ParseValue(toks, p)
  IN IF ~item.ok \/ item.val.t \in {"dict", "set"} THEN Fail
     ELSE IF item.pos > Len(toks) THEN Fail
     ELSE LET d == DictPut(acc, item.val, VNone)
              q == item.pos
          IN IF toks[q] = RB
             THEN [ok |-> TRUE, val |-> VSet(d), pos |-> q + 1]
             ELSE IF toks[q] # COMMA THEN Fail
             ELSE IF q + 1 <= Len(toks) /\ toks[q + 1] = RB
                  THEN [ok |-> TRUE, val |-> VSet(d), pos |-> q + 2]
                  ELSE ParseElems(toks, q + 1, d)

literal_eval(blob) ==
  LET r == ParseValue(blob, 1)
  IN IF r.ok /\ r.pos = Len(blob) + 1 THEN r ELSE Fail

(***************************************************************************)
(* repr() and str() of a value, as the f-strings of encode_as_str format    *)
(* it.  Integers of the alphabet are the repunits 1, 11, ...                *)
(***************************************************************************)
Chars(s) == {s[j] : j \in 1..Len(s)}

ReprStr(s) ==
  IF SQ \in Chars(s) /\ DQ \notin Chars(s)
  THEN <<DQ>> \o s \o <<DQ>>
  ELSE <<SQ>> \o [j \in 1..Len(s) |-> IF s[j] = SQ THEN ESCQ ELSE s[j]] \o <<SQ>>

RECURSIVE ReprInt(_)
ReprInt(n) == IF n < 10 THEN <<DIGIT>> ELSE ReprInt(n \div 10) \o <<DIGIT>>

RECURSIVE Repr(_)
RECURSIVE ReprPairs(_, _, _)

Repr(v) ==
  IF v.t = "str" THEN ReprStr(v.s)
  ELSE IF v.t = "int" THEN ReprInt(v.n)
  ELSE IF v.t = "none" THEN <<NONE>>
  ELSE <<LB>> \o ReprPairs(v.d, 1, v.t = "dict") \o <<RB>>

ReprPairs(d, j, is_dict) ==
  IF j > Len(d) THEN <<>>
  ELSE Repr(d[j].k) \o (IF is_dict THEN <<COLON>> \o Repr(d[j].v) ELSE <<>>)
       \o (IF j < Len(d) THEN <<COMMA>> ELSE <<>>) \o ReprPairs(d, j + 1, is_dict)

Str(v) == IF v.t = "str" THEN v.s ELSE Repr(v)

(***************************************************************************)
(* ActionEncoder                                                            *)
(***************************************************************************)
FINAL_ANSWER == <<"Final Answer">>
K_ACTION == VStr(<<"action">>)
K_ACTION_INPUT == VStr(<<"action_input">>)

NoMatch == [found |-> FALSE, blob |-> <<>>]

\* variant: the closing tag optional, the blob running to the end of the text
pattern_search_open_only(text) ==
  LET starts == {b \in 1..Len(text) : text[b] = OPEN}
  IN IF starts = {} THEN NoMatch
     ELSE LET b == Min(starts)
              ends == {j \in (b + 1)..Len(text) : text[j] = CLOSE}
              e == IF ends = {} THEN Len(text) + 1 ELSE Min(ends)
          IN [found |-> TRUE, blob |-> SubSeq(text, b + 1, e - 1)]

\* variant: a greedy pattern, the blob running to the last closing tag
pattern_search_greedy(text) ==
  LET starts == {b \in 1..Len(text) :
                   /\ text[b] = OPEN
                   /\ \E e \in (b + 1)..Len(text) : text[e] = CLOSE}
  IN IF starts = {} THEN NoMatch
     ELSE LET b == Min(starts)
              ends == {j \in (b + 1)..Len(text) : text[j] = CLOSE}
              e == CHOOSE j \in ends : \A i \in ends : i <= j
          IN [found |-> TRUE, blob |-> SubSeq(text, b + 1, e - 1)]

\* self.pattern.search(text): the leftmost opening tag that has a closing tag
\* after it, up to the nearest such closing tag (non-greedy, DOTALL).
pattern_search(text) ==
  LET starts == {b \in 1..Len(text) :
                   /\ text[b] = OPEN
                   /\ \E e \in (b + 1)..Len(text) : text[e] = CLOSE}
  IN IF starts = {} THEN NoMatch
     ELSE LET b == Min(starts)
              e == Min({j \in (b + 1)..Len(text) : text[j] = CLOSE})
          IN [found |-> TRUE, blob |-> SubSeq(text, b + 1, e - 1)]

Outcome(kind, name, arg, exc) ==
  [kind |-> kind, name |-> name, arg |-> arg, exc |-> exc]

NoAction == Outcome("none", VNone, VNone, "")
Raise(exc) == Outcome("raise", VNone, VNone, exc)
AgentFinish(result) == Outcome("Finish", VNone, result, "")
FunctionCall(name, arguments) == Outcome("Invoke", name, arguments, "")

\* variant: data.get("action_input") in place of data["action_input"]
decode_blob_get(action_blob) ==
  LET data == literal_eval(action_blob)
  IN IF ~data.ok THEN Raise("SyntaxError")
     ELSE IF data.val.t # "dict" THEN Raise("TypeError")
     ELSE IF ~HasKey(data.val.d, K_ACTION) THEN Raise("KeyError")
     ELSE LET name == DictGet(data.val.d, K_ACTION)
              action_input == IF HasKey(data.val.d, K_ACTION_INPUT)
                              THEN DictGet(data.val.d, K_ACTION_INPUT)
                              ELSE VNone
          IN IF name = VStr(FINAL_ANSWER)
             THEN AgentFinish(action_input)
             ELSE FunctionCall(name,
                    IF Falsy(action_input) THEN VDict(<<>>) ELSE action_input)

\* variant: name.startswith("Final Answer") in place of the equality
decode_blob_prefix(action_blob) ==
  LET data == literal_eval(action_blob)
  IN IF ~data.ok THEN Raise("SyntaxError")
     ELSE IF data.val.t # "dict" THEN Raise("TypeError")
     ELSE IF ~HasKey(data.val.d, K_ACTION) THEN Raise("KeyError")
     ELSE LET name == DictGet(data.val.d, K_ACTION)
          IN IF ~HasKey(data.val.d, K_ACTION_INPUT) THEN Raise("KeyError")
             ELSE LET action_input == DictGet(data.val.d, K_ACTION_INPUT)
                  IN IF name.t = "str" /\ Len(name.s) > 0
                        /\ name.s[1] = "Final Answer"
                     THEN AgentFinish(action_input)
                     ELSE FunctionCall(name,
                            IF Falsy(action_input) THEN VDict(<<>>)
                            ELSE action_input)

\* the body of decode once the pattern has matched
decode_blob(action_blob) ==
  LET data == literal_eval(action_blob)
  IN IF ~data.ok THEN Raise("SyntaxError")
     ELSE IF data.val.t # "dict" THEN Raise("TypeError")
     ELSE IF ~HasKey(data.val.d, K_ACTION) THEN Raise("KeyError")
     ELSE LET name == DictGet(data.val.d, K_ACTION)
          IN IF ~HasKey(data.val.d, K_ACTION_INPUT) THEN Raise("KeyError")
             ELSE LET action_input == DictGet(data.val.d, K_ACTION_INPUT)
                  IN IF name = VStr(FINAL_ANSWER)
                     THEN AgentFinish(action_input)
                     ELSE FunctionCall(name,
                            IF Falsy(action_input) THEN VDict(<<>>)
                            ELSE action_input)

\* variant: a text without a match is an error
decode_strict(text) ==
  LET match == pattern_search(text)
  IN IF match.found THEN decode_blob(match.blob) ELSE Raise("ValueError")

decode(text) ==
  LET match == pattern_search(text)
  IN IF match.found THEN decode_blob(match.blob) ELSE NoAction

encode_as_str(function_call) ==
  IF function_call.name = FINAL_ANSWER
  THEN <<OPEN, LB, SQ, "action", SQ, COLON, SQ, "Final Answer", SQ, COMMA,
         SQ, "action_input", SQ, COLON, SQ>>
       \o Str(function_call.arguments) \o <<SQ, RB, CLOSE>>
  ELSE <<OPEN, LB, SQ, "action", SQ, COLON, SQ>> \o function_call.name
       \o <<SQ, COMMA, SQ, "action_input", SQ, COLON>>
       \o Str(function_call.arguments) \o <<RB, CLOSE>>

(***************************************************************************)
(* The codec on its own: an input is a text handed to decode, or a call     *)
(* handed to encode_as_str and then to decode.                              *)
(***************************************************************************)
MaxTextLen == 3
MaxNameLen == 2

RECURSIVE SeqsUpTo(_, _)
SeqsUpTo(S, n) ==
  IF n = 0 THEN {<<>>}
  ELSE LET shorter == SeqsUpTo(S, n - 1)
       IN shorter \cup {Append(q, c) : q \in shorter, c \in S}

Block(blob) == <<OPEN>> \o blob \o <<CLOSE>>

Quoted(word) == <<SQ, word, SQ>>

\* {'action': <name literal>, 'action_input': <input literal>}
Mapping(name_lit, input_lit) ==
  <<LB>> \o Quoted("action") \o <<COLON>> \o name_lit \o <<COMMA>>
  \o Quoted("action_input") \o <<COLON>> \o input_lit \o <<RB>>

\* texts with no delimiter pair in them, and texts of stray tags
PlainTexts == SeqsUpTo({OPEN, CLOSE, "x", LB}, MaxTextLen)

\* blobs that are not a literal, or not a mapping with both keys
MalformedBlobs ==
  { <<>>, <<"x">>, <<LB>>, <<LB, RB>>, <<DIGIT>>, <<NONE>>, Quoted("x"),
    <<SQ, "x">>, <<OPEN>>,
    <<LB>> \o Quoted("action") \o <<COLON>> \o Quoted("x") \o <<RB>>,
    <<LB>> \o Quoted("action") \o <<COLON>> \o Quoted("Final Answer") \o <<RB>>,
    <<LB>> \o Quoted("action_input") \o <<COLON, LB, RB, RB>>,
    <<LB>> \o Quoted("action") \o <<RB>>,
    Mapping(Quoted("x"), <<"x">>),
    Mapping(<<"x">>, <<LB, RB>>),
    Mapping(Quoted("x"), <<LB, RB>>) \o <<"x">>,
    <<"x">> \o Mapping(Quoted("Final Answer"), Quoted("x")) }

InputLits == { <<LB, RB>>, Quoted("x"), <<SQ, SQ>>, <<NONE>>, <<DIGIT>>,
               <<LB>> \o Quoted("x") \o <<COLON, DIGIT, RB>> }

NameLits == { Quoted("x"), Quoted("Final Answer"), <<DQ, "x", SQ, DQ>>,
              <<DIGIT>>, <<SQ, "x", DQ, SQ>>, <<SQ, "Final Answer", "x", SQ>> }

WellFormedBlobs == { Mapping(nl, il) : nl \in NameLits, il \in InputLits }

Surround == { <<>>, <<"x">>, <<CLOSE>> }

Trailers == { <<>>, <<"x">>, Block(Mapping(Quoted("x"), <<LB, RB>>)),
              Block(<<"x">>) }

TextInput(shape, text) ==
  [mode |-> "text", shape |-> shape, text |-> text,
   name |-> <<>>, arguments |-> VNone]

CallInput(name, arguments) ==
  [mode |-> "call", shape |-> "call", text |-> <<>>,
   name |-> name, arguments |-> arguments]

\* JSON-safe values: strings, integers, null and mappings with string keys
ArgStrings == { <<>>, <<"x">>, <<SQ>>, <<"x", SQ>>, <<DQ>>, <<SQ, DQ>>,
                <<CLOSE>>, <<LB>> }

ArgScalars == {VStr(a) : a \in ArgStrings} \cup {VInt(1), VInt(11), VNone}

ArgMappings ==
  {VDict(<<>>)}
  \cup {VDict(<<[k |-> VStr(<<"x">>), v |-> a]>>) : a \in ArgScalars}
  \cup {VDict(<<[k |-> VStr(<<"x">>), v |-> VDict(<<>>)]>>),
        VDict(<<[k |-> VStr(<<"x">>), v |-> VInt(1)],
                [k |-> VStr(<<"y">>),
                 v |-> VDict(<<[k |-> VStr(<<"x">>), v |-> VStr(<<"x">>)]>>)]>>)}

ToolNames == SeqsUpTo({"x", SQ}, MaxNameLen) \ {<<>>}

FinishResults == ArgScalars \cup ArgMappings

CodecInputs ==
  {TextInput("plain", t) : t \in PlainTexts}
  \cup {TextInput("malformed", pre \o Block(b) \o post) :
          pre \in Surround, b \in MalformedBlobs, post \in Trailers}
  \cup {TextInput("wellformed", pre \o Block(b) \o post) :
          pre \in Surround, b \in WellFormedBlobs, post \in Trailers}
  \cup {CallInput(n, a) : n \in ToolNames, a \in ArgMappings}
  \cup {CallInput(FINAL_ANSWER, r) : r \in FinishResults}

LoopOff ==
  /\ message_log = <<>>
  /\ pc = "off"
  /\ iter = 0
  /\ max_iterations = 0
  /\ err = ""
  /\ calls = 0
  /\ seed = <<>>
  /\ hist = <<>>

CodecInit ==
  /\ LoopOff
  /\ PromptOff
  /\ PairOff
  /\ codec_in \in CodecInputs
  /\ codec_text = codec_in.text
  /\ codec_out = NoAction
  /\ codec_pc = IF codec_in.mode = "text" THEN "encoded" ELSE "start"

\* text = encoder.encode_as_str(function_call)
Encode ==
  /\ codec_pc = "start"
  /\ codec_text' = encode_as_str([name |-> codec_in.name,
                                   arguments |-> codec_in.arguments])
  /\ codec_pc' = "encoded"
  /\ UNCHANGED <<codec_in, codec_out>>
  /\ UNCHANGED <<loop_vars, prompt_vars, runs>>

\* action = encoder.decode(text)
Decode ==
  /\ codec_pc = "encoded"
  /\ codec_out' = decode(codec_text)
  /\ codec_pc' = "decoded"
  /\ UNCHANGED <<codec_in, codec_text>>
  /\ UNCHANGED <<loop_vars, prompt_vars, runs>>

CodecNext == Encode \/ Decode

SpecCodec == CodecInit /\ [][CodecNext]_vars

(***************************************************************************)
(* Transcript entries.  Every entry has the same fields.                    *)
(***************************************************************************)
Message(role, content) ==
  [kind |-> "Message", role |-> role, content |-> content,
   name |-> VNone, val |-> VNone, error |-> ""]

InvokeEntry(name, arguments) ==
  [kind |-> "Invoke", role |-> "", content |-> <<>>,
   name |-> name, val |-> arguments, error |-> ""]

ResultEntry(name, result, error) ==
  [kind |-> "Result", role |-> "", content |-> <<>>,
   name |-> name, val |-> result, error |-> error]

FinishEntry(result) ==
  [kind |-> "Finish", role |-> "", content |-> <<>>,
   name |-> VNone, val |-> result, error |-> ""]

(***************************************************************************)
(* The program built by create_llm_program (langchain.automaton.runnables,  *)
(* not among the sources): one model invocation, the parser on its reply,   *)
(* and the tool of a decoded Invoke.  A reply is what the collaborators do  *)
(* in one iteration: the model returns a text or raises, the tool returns   *)
(* or raises.                                                               *)
(***************************************************************************)
KnownTools == {VStr(<<"x">>)}

ToolValue == VInt(1)

Returned(messages) == [raised |-> FALSE, exc |-> "", messages |-> messages]
Raised(exc) == [raised |-> TRUE, exc |-> exc, messages |-> <<>>]

\* the tool registry on a decoded Invoke: always a Result entry
tool_invoke(call, tool) ==
  IF call.name \notin KnownTools
  THEN ResultEntry(call.name, VNone, "ToolNotFound")
  ELSE IF tool = "raise"
       THEN ResultEntry(call.name, VNone, "ToolExecutionError")
       ELSE ResultEntry(call.name, ToolValue, "")

llm_program_invoke(log, reply) ==
  IF reply.model = "raise" THEN Raised("ModelInvocationError")
  ELSE LET message == Message("ai", reply.text)
           parsed == decode(reply.text)
       IN IF parsed.kind = "raise" THEN Raised("MalformedAction")
          ELSE IF parsed.kind = "none" THEN Returned(<<message>>)
          ELSE IF parsed.kind = "Finish"
               THEN Returned(<<message, FinishEntry(parsed.arg)>>)
               ELSE Returned(<<message, InvokeEntry(parsed.name, parsed.arg),
                               tool_invoke(parsed, reply.tool)>>)

(***************************************************************************)
(* ChatAgent.run                                                            *)
(***************************************************************************)
MaxIter == 3

\* variant: the emptiness check left out
precondition_never(log) == FALSE

\* `not message_log`
precondition_fails(log) == Len(log) = 0

\* variant: one pass too many
range_has_next_inclusive(i, n) == i <= n

\* variant: the body runs once before the bound is looked at
range_has_next_at_least_once(i, n) == i < n \/ i = 0

\* `for _ in range(self.max_iterations)`: is there an i-th pass (i from 0)
range_has_next(i, n) == i < n

\* variant: the test never recognises the entry
is_agent_finish_never(entry) == FALSE

\* variant: the test also takes a function result for the end
is_agent_finish_or_result(entry) == entry.kind \in {"Finish", "Result"}

\* isinstance(last_message, AgentFinish)
is_agent_finish(entry) == entry.kind = "Finish"

\* variant: any entry of the log is looked at, not the last one
any_is_finish(log) == \E j \in 1..Len(log) : is_agent_finish(log[j])

\* last_message = message_log[-1]; isinstance(last_message, AgentFinish)
LastIsFinish(log) == Len(log) > 0 /\ is_agent_finish(log[Len(log)])

\* variant: the log replaced by the new messages
add_messages_overwrite(log, messages) == messages

\* message_log.add_messages(messages)
add_messages(log, messages) == log \o messages

\* variant: the exception swallowed, the loop goes on
on_exception_swallow(exc) == [pc |-> "loop", err |-> ""]

\* an exception of llm_program.invoke inside the loop: run has no handler
on_exception(exc) == [pc |-> "raised", err |-> exc]

Reply(shape, model, text, tool) ==
  [shape |-> shape, model |-> model, text |-> text, tool |-> tool]

FinishTexts ==
  { Block(Mapping(Quoted("Final Answer"), Quoted("x"))),
    <<"x">> \o Block(Mapping(Quoted("Final Answer"), <<LB, RB>>)) \o <<"x">> }

\* an Invoke of the known tool
InvokeTexts ==
  { Block(Mapping(Quoted("x"), <<LB, RB>>)),
    <<"x">> \o Block(Mapping(Quoted("x"),
                             <<LB>> \o Quoted("x") \o <<COLON, DIGIT, RB>>)) }

\* an Invoke of a tool the registry does not hold
UnknownToolTexts == { Block(Mapping(Quoted("y"), <<LB, RB>>)) }

NoActionTexts == { <<"x">>, <<OPEN, "x">> }

MalformedTexts ==
  { Block(<<"x">>),
    Block(<<LB>> \o Quoted("action") \o <<COLON>> \o Quoted("x") \o <<RB>>) }

Replies ==
  {Reply("finish", "ok", t, "ok") : t \in FinishTexts}
  \cup {Reply("invoke", "ok", t, o) : t \in InvokeTexts, o \in {"ok", "raise"}}
  \cup {Reply("unknown", "ok", t, "ok") : t \in UnknownToolTexts}
  \cup {Reply("plain", "ok", t, "ok") : t \in NoActionTexts}
  \cup {Reply("malformed", "ok", t, "ok") : t \in MalformedTexts}
  \cup {Reply("failure", "raise", <<>>, "ok")}

Human == Message("human", <<"x">>)

Seeds ==
  { <<>>,
    <<Human>>,
    <<Human, FinishEntry(VStr(<<"x">>))>>,
    <<FinishEntry(VStr(<<"x">>)), Human>>,
    <<Human, ResultEntry(VStr(<<"x">>), ToolValue, "")>> }

Init ==
  /\ message_log \in Seeds
  /\ seed = message_log
  /\ max_iterations \in (0 - 1)..MaxIter
  /\ pc = "start"
  /\ iter = 0
  /\ err = ""
  /\ calls = 0
  /\ hist = <<>>
  /\ codec_in = CallInput(<<>>, VNone)
  /\ codec_text = <<>>
  /\ codec_out = NoAction
  /\ codec_pc = "off"
  /\ PromptOff
  /\ PairOff

\* run, up to the loop: the precondition on the log
RunStart ==
  /\ pc = "start"
  /\ IF precondition_fails(message_log)
     THEN pc' = "raised" /\ err' = "AssertionError"
     ELSE pc' = "loop" /\ err' = err
  /\ UNCHANGED <<message_log, iter, max_iterations, calls, seed, hist>>
  /\ UNCHANGED <<codec_vars, prompt_vars, runs>>

\* the range is used up: run returns
Exhaust ==
  /\ pc = "loop"
  /\ ~range_has_next(iter, max_iterations)
  /\ pc' = "returned"
  /\ UNCHANGED <<message_log, iter, max_iterations, err, calls, seed, hist>>
  /\ UNCHANGED <<codec_vars, prompt_vars, runs>>

\* one pass that finds an AgentFinish as the last message: break
Break ==
  /\ pc = "loop"
  /\ range_has_next(iter, max_iterations)
  /\ LastIsFinish(message_log)
  /\ pc' = "returned"
  /\ iter' = iter + 1
  /\ UNCHANGED <<message_log, max_iterations, err, calls, seed, hist>>
  /\ UNCHANGED <<codec_vars, prompt_vars, runs>>

\* one pass that invokes the program and adds its messages to the log
Iterate ==
  /\ pc = "loop"
  /\ range_has_next(iter, max_iterations)
  /\ ~LastIsFinish(message_log)
  /\ \E reply \in Replies :
       LET out == llm_program_invoke(message_log, reply)
           stop == on_exception(out.exc)
       IN /\ iter' = iter + 1
          /\ calls' = calls + 1
          /\ hist' = Append(hist, [reply |-> reply, messages |-> out.messages])
          /\ IF out.raised
             THEN /\ pc' = stop.pc
                  /\ err' = stop.err
                  /\ message_log' = message_log
             ELSE /\ pc' = "loop"
                  /\ err' = err
                  /\ message_log' = add_messages(message_log, out.messages)
  /\ UNCHANGED <<max_iterations, seed>>
  /\ UNCHANGED <<codec_vars, prompt_vars, runs>>

Next == RunStart \/ Exhaust \/ Break \/ Iterate

Spec == Init /\ [][Next]_vars

\* every call made inside run returns or raises, so a run that can take a
\* step takes one
SpecLive == Spec /\ WF_vars(Next)

(***************************************************************************)
(* prompt_generator on its own: a log is projected, and projected again.    *)
(***************************************************************************)
MaxLogLen == 3

OBSERVATION == "Observation: "

SystemMessage(content) == Message("system", content)

\* the for loop of prompt_generator from entry j on; messages is the list so far
RECURSIVE prompt_loop(_, _, _)
prompt_loop(log, j, messages) ==
  IF j > Len(log) THEN messages
  ELSE prompt_loop(log, j + 1,
         IF log[j].kind = "Message" THEN Append(messages, log[j])
         ELSE IF log[j].kind = "Result"
              THEN Append(messages,
                          SystemMessage(<<OBSERVATION>> \o Str(log[j].val)))
              ELSE messages)

\* variant: the result formatted with !r
RECURSIVE prompt_loop_repr(_, _, _)
prompt_loop_repr(log, j, messages) ==
  IF j > Len(log) THEN messages
  ELSE prompt_loop_repr(log, j + 1,
         IF log[j].kind = "Message" THEN Append(messages, log[j])
         ELSE IF log[j].kind = "Result"
              THEN Append(messages,
                          SystemMessage(<<OBSERVATION>> \o Repr(log[j].val)))
              ELSE messages)

prompt_generator_repr(log) == prompt_loop_repr(log, 1, <<>>)

prompt_generator(log) == prompt_loop(log, 1, <<>>)

PromptEntries ==
  { Human,
    Message("ai", <<"x">>),
    InvokeEntry(VStr(<<"x">>), VDict(<<>>)),
    ResultEntry(VStr(<<"x">>), VInt(11), ""),
    ResultEntry(VStr(<<"x">>), VStr(<<"x">>), ""),
    ResultEntry(VStr(<<"x">>), VNone, "ToolExecutionError"),
    FinishEntry(VStr(<<"x">>)) }

PromptLogs == SeqsUpTo(PromptEntries, MaxLogLen)

CodecOff ==
  /\ codec_in = CallInput(<<>>, VNone)
  /\ codec_text = <<>>
  /\ codec_out = NoAction
  /\ codec_pc = "off"

PromptInit ==
  /\ LoopOff
  /\ CodecOff
  /\ PairOff
  /\ prompt_log \in PromptLogs
  /\ prompt_out = <<>>
  /\ prompt_first = <<>>
  /\ prompt_pc = "start"

\* messages = prompt_generator(log)
Project ==
  /\ prompt_pc \in {"start", "once"}
  /\ prompt_out' = prompt_generator(prompt_log)
  /\ prompt_first' = IF prompt_pc = "start" THEN prompt_out' ELSE prompt_first
  /\ prompt_pc' = IF prompt_pc = "start" THEN "once" ELSE "twice"
  /\ UNCHANGED prompt_log
  /\ UNCHANGED <<loop_vars, codec_vars, runs>>

PromptNext == Project

SpecPrompt == PromptInit /\ [][PromptNext]_vars

(***************************************************************************)
(* Two calls of run side by side, each on a log of its own, their steps     *)
(* interleaved in any order.  A run has its log, its loop counter and its   *)
(* position; max_iterations is read, never written.                         *)
(***************************************************************************)
MaxPairIter == 2

RunIds == {1, 2}

\* variant: the loop counter kept in one place for every call
counter_shared(r) == 1

\* the run whose loop counter a pass of run r reads and advances: the
\* counter is a local of the call
counter_of(r) == r

PairSeeds == { <<Human>>, <<Human, ResultEntry(VStr(<<"x">>), ToolValue, "")>> }

PairReplies ==
  { Reply("finish", "ok", Block(Mapping(Quoted("Final Answer"), Quoted("x"))),
          "ok"),
    Reply("invoke", "ok", Block(Mapping(Quoted("x"), <<LB, RB>>)), "raise"),
    Reply("plain", "ok", <<"x">>, "ok"),
    Reply("failure", "raise", <<>>, "ok") }

RunState(log, n) ==
  [message_log |-> log, seed |-> log, max_iterations |-> n, pc |-> "start",
   iter |-> 0, err |-> "", calls |-> 0, hist |-> <<>>]

PairInit ==
  /\ LoopOff
  /\ CodecOff
  /\ PromptOff
  /\ runs \in [RunIds -> {RunState(log, n) :
                             log \in PairSeeds, n \in 1..MaxPairIter}]

PairStart(r) ==
  /\ runs[r].pc = "start"
  /\ runs' = IF precondition_fails(runs[r].message_log)
             THEN [runs EXCEPT ![r].pc = "raised", ![r].err = "AssertionError"]
             ELSE [runs EXCEPT ![r].pc = "loop"]
  /\ UNCHANGED <<loop_vars, codec_vars, prompt_vars>>

PairExhaust(r) ==
  /\ runs[r].pc = "loop"
  /\ ~range_has_next(runs[counter_of(r)].iter, runs[r].max_iterations)
  /\ runs' = [runs EXCEPT ![r].pc = "returned"]
  /\ UNCHANGED <<loop_vars, codec_vars, prompt_vars>>

PairBreak(r) ==
  /\ runs[r].pc = "loop"
  /\ range_has_next(runs[counter_of(r)].iter, runs[r].max_iterations)
  /\ LastIsFinish(runs[r].message_log)
  /\ runs' = [runs EXCEPT ![r].pc = "returned", ![counter_of(r)].iter = @ + 1]
  /\ UNCHANGED <<loop_vars, codec_vars, prompt_vars>>

\* one pass of run that reaches line 99: the outcome of the invocation is
\* added to the log (line 100) or leaves run as an exception
PairPass(run, reply, out) ==
  [run EXCEPT
     !.calls = @ + 1,
     !.hist = Append(@, [reply |-> reply, messages |-> out.messages]),
     !.pc = IF out.raised THEN on_exception(out.exc).pc ELSE "loop",
     !.err = IF out.raised THEN on_exception(out.exc).err ELSE @,
     !.message_log = IF out.raised THEN @ ELSE add_messages(@, out.messages)]

PairIterate(r) ==
  /\ runs[r].pc = "loop"
  /\ range_has_next(runs[counter_of(r)].iter, runs[r].max_iterations)
  /\ ~LastIsFinish(runs[r].message_log)
  /\ \E reply \in PairReplies :
       \E out \in {llm_program_invoke(runs[r].message_log, reply)} :
          runs' = [[runs EXCEPT ![r] = PairPass(@, reply, out)]
                   EXCEPT ![counter_of(r)].iter = @ + 1]
  /\ UNCHANGED <<loop_vars, codec_vars, prompt_vars>>

PairNext ==
  \E r \in RunIds :
     PairStart(r) \/ PairExhaust(r) \/ PairBreak(r) \/ PairIterate(r)

SpecPair == PairInit /\ [][PairNext]_vars

(***************************************************************************)
(* Properties                                                               *)
(***************************************************************************)
IsPrefix(a, b) == Len(a) <= Len(b) /\ SubSeq(b, 1, Len(a)) = a

\* an opening tag with a closing tag somewhere after it
HasBlock(text) ==
  \E i \in 1..Len(text) : \E j \in (i + 1)..Len(text) :
     text[i] = OPEN /\ text[j] = CLOSE

\* the messages the first k iterations returned, in order
RECURSIVE Appended(_, _)
Appended(h, k) == IF k = 0 THEN <<>> ELSE Appended(h, k - 1) \o h[k].messages

HoldsFinish(log) == \E j \in 1..Len(log) : log[j].kind = "Finish"

Stopped == pc \in {"returned", "raised"}

NoFinalEmitted == \A k \in 1..Len(hist) : hist[k].reply.shape # "finish"

\* every reply so far is a text that decodes to no action or to an Invoke
OnlyNonTerminating ==
  \A k \in 1..Len(hist) :
     hist[k].reply.shape \in {"plain", "invoke", "unknown"}

\* C1 as stated: from any non-empty seed, with max_iterations >= 1 and a
\* model that never emits a Final Answer action, run makes exactly
\* max_iterations model invocations, returns normally and leaves a transcript
\* without a Finish entry; the invocations never exceed max_iterations.
C1_AsStated ==
  /\ (Stopped /\ Len(seed) > 0 /\ max_iterations >= 1 /\ NoFinalEmitted) =>
        (pc = "returned" /\ calls = max_iterations /\ ~HoldsFinish(message_log))
  /\ (max_iterations >= 1 => calls <= max_iterations)

\* C1 as amended: from a non-empty seed that holds no Finish entry, with
\* max_iterations >= 1 and a model whose every reply is a text that decodes
\* to no action or to an Invoke, run makes exactly max_iterations model
\* invocations, returns normally and leaves a transcript without a Finish
\* entry; with max_iterations >= 1 the invocations never exceed it.
C1_Exhaustion ==
  /\ (Stopped /\ Len(seed) > 0 /\ ~HoldsFinish(seed) /\ max_iterations >= 1
        /\ OnlyNonTerminating) =>
        (pc = "returned" /\ err = "" /\ calls = max_iterations
         /\ ~HoldsFinish(message_log))
  /\ (max_iterations >= 1 => calls <= max_iterations)

C1_Witness ==
  /\ pc = "returned"
  /\ Len(seed) > 0 /\ ~HoldsFinish(seed)
  /\ OnlyNonTerminating
  /\ max_iterations >= 2
  /\ calls = max_iterations

\* C2: with a seed of one message and max_iterations >= 1, a first reply that
\* is a Final Answer encoding makes run invoke the model exactly once, append
\* one message entry and then a Finish entry, and append nothing after them.
C2_FinalAnswerFirst ==
  (/\ Len(seed) = 1 /\ seed[1].kind = "Message"
   /\ max_iterations >= 1
   /\ Len(hist) >= 1 /\ hist[1].reply.shape = "finish") =>
     /\ calls = 1 /\ Len(hist) = 1
     /\ err = "" /\ pc \in {"loop", "returned"}
     /\ Len(message_log) = 3
     /\ message_log[1] = seed[1]
     /\ message_log[2] = Message("ai", hist[1].reply.text)
     /\ message_log[3].kind = "Finish"

C2_Witness ==
  /\ pc = "returned"
  /\ Len(seed) = 1 /\ seed[1].kind = "Message"
  /\ max_iterations >= 2
  /\ Len(hist) = 1 /\ hist[1].reply.shape = "finish"

\* C3: run on an empty transcript raises the precondition error whatever
\* max_iterations is, without a model invocation and without appending.
C3_EmptyRaises ==
  (Len(seed) = 0 /\ pc # "start") =>
     /\ pc = "raised" /\ err = "AssertionError"
     /\ calls = 0 /\ hist = <<>>
     /\ message_log = <<>>

C3_Witness ==
  /\ seed = <<>>
  /\ pc = "raised"
  /\ max_iterations = MaxIter

\* C4: every step of run leaves the earlier transcript, the seed included, a
\* prefix of the new one, and a step that changes the transcript appends
\* exactly the messages one iteration returned.
C4_AppendOnly ==
  [][/\ IsPrefix(message_log, message_log')
     /\ IsPrefix(seed', message_log')
     /\ message_log' # message_log =>
          /\ Len(hist') = Len(hist) + 1
          /\ message_log' = message_log \o hist'[Len(hist')].messages]_vars

C4_Witness ==
  /\ Len(hist) >= 2
  /\ Len(message_log) >= Len(seed) + 4

\* C5: a model invocation that fails in iteration k ends run with that error:
\* it is the last invocation, and the transcript is the seed followed by what
\* iterations 1..k-1 returned.
C5_ModelFailureFatal ==
  \A k \in 1..Len(hist) :
     hist[k].reply.model = "raise" =>
        /\ k = Len(hist) /\ calls = k
        /\ pc = "raised" /\ err = "ModelInvocationError"
        /\ hist[k].messages = <<>>
        /\ message_log = seed \o Appended(hist, k - 1)

C5_Witness ==
  /\ pc = "raised" /\ err = "ModelInvocationError"
  /\ Len(hist) >= 2
  /\ Len(message_log) > Len(seed)

ToolFailed(k) ==
  hist[k].reply.shape = "invoke" /\ hist[k].reply.tool = "raise"

\* C6: an iteration whose tool raises returns a Result entry with an error
\* indicator as its last message; run raises nothing, and it stops after that
\* iteration only when the iteration budget is used up.
C6_ToolFailureCaptured ==
  \A k \in 1..Len(hist) :
     ToolFailed(k) =>
        LET messages == hist[k].messages
        IN /\ Len(messages) > 0
           /\ messages[Len(messages)].kind = "Result"
           /\ messages[Len(messages)].error # ""
           /\ k = Len(hist) =>
                /\ err = "" /\ pc \in {"loop", "returned"}
                /\ message_log[Len(message_log)] = messages[Len(messages)]
                /\ pc = "returned" => iter >= max_iterations

C6_Witness ==
  /\ pc = "loop"
  /\ \E k \in 1..Len(hist) : k < Len(hist) /\ ToolFailed(k)

C8_NoActionNoOp ==
  \A k \in 1..Len(hist) :
     (hist[k].reply.model = "ok" /\ ~HasBlock(hist[k].reply.text)) =>
        /\ hist[k].messages = <<Message("ai", hist[k].reply.text)>>
        /\ k = Len(hist) =>
             /\ err = "" /\ pc \in {"loop", "returned"}
             /\ message_log = seed \o Appended(hist, k)
             /\ pc = "loop" => iter = k
             /\ pc = "returned" => iter >= max_iterations

C8_Witness ==
  /\ pc = "loop"
  /\ \E k \in 1..Len(hist) :
       k < Len(hist) /\ hist[k].reply.shape = "plain"

\* C9: decode returns "no action" on every text that holds no opening tag
\* with a closing tag after it.
C9_TagFreeNone ==
  (codec_pc = "decoded" /\ codec_in.mode = "text" /\ ~HasBlock(codec_text)) =>
     codec_out = NoAction

C9_Witness ==
  /\ codec_pc = "decoded"
  /\ codec_in.mode = "text"
  /\ ~HasBlock(codec_text)
  /\ OPEN \in Chars(codec_text)
  /\ CLOSE \in Chars(codec_text)

\* C10: decoding the encoding of an Invoke gives an Invoke of the same name
\* and equal arguments, and decoding the encoding of a Finish gives a Finish
\* carrying the same result.
C10_RoundTrip ==
  (codec_pc = "decoded" /\ codec_in.mode = "call") =>
     IF codec_in.name = FINAL_ANSWER
     THEN codec_out = AgentFinish(codec_in.arguments)
     ELSE codec_out = FunctionCall(VStr(codec_in.name), codec_in.arguments)

\* the value a literal of NameLits or InputLits denotes, written out by hand
Denotes(lit) ==
  CASE lit = <<LB, RB>> -> VDict(<<>>)
    [] lit = Quoted("x") -> VStr(<<"x">>)
    [] lit = <<SQ, SQ>> -> VStr(<<>>)
    [] lit = <<NONE>> -> VNone
    [] lit = <<DIGIT>> -> VInt(1)
    [] lit = <<LB>> \o Quoted("x") \o <<COLON, DIGIT, RB>>
         -> VDict(<<[k |-> VStr(<<"x">>), v |-> VInt(1)]>>)
    [] lit = Quoted("Final Answer") -> VStr(<<"Final Answer">>)
    [] lit = <<DQ, "x", SQ, DQ>> -> VStr(<<"x", SQ>>)
    [] lit = <<SQ, "x", DQ, SQ>> -> VStr(<<"x", DQ>>)
    [] lit = <<SQ, "Final Answer", "x", SQ>> -> VStr(<<"Final Answer", "x">>)

Decoded == codec_pc = "decoded" /\ codec_in.mode = "text"

\* {'action': 'x'}: a mapping without the key action_input
ActionOnly == <<LB>> \o Quoted("action") \o <<COLON>> \o Quoted("x") \o <<RB>>

EmptyInputLits == { <<LB, RB>>, <<SQ, SQ>>, <<NONE>> }

\* C11 as stated: the arguments of a decoded Invoke are a mapping, and a blob
\* whose action_input is missing or empty decodes to an Invoke with the empty
\* mapping for its arguments.
C11_ArgumentsNeverNull ==
  Decoded =>
    /\ codec_out.kind = "Invoke" => codec_out.arg.t = "dict"
    /\ \A pre \in Surround, post \in Trailers :
         /\ codec_text = pre \o Block(ActionOnly) \o post =>
              codec_out = FunctionCall(VStr(<<"x">>), VDict(<<>>))
         /\ \A il \in EmptyInputLits :
              codec_text = pre \o Block(Mapping(Quoted("x"), il)) \o post =>
                 codec_out = FunctionCall(VStr(<<"x">>), VDict(<<>>))

WellTrailer == Block(Mapping(Quoted("x"), <<LB, RB>>))

\* C12 as stated: of several delimited blocks the first well-formed one gives
\* the Action, so a malformed block before a well-formed one is passed over.
C12_FirstWellFormedWins ==
  Decoded =>
    \A pre \in Surround :
       /\ \A b \in MalformedBlobs :
            codec_text = pre \o Block(b) \o WellTrailer =>
               codec_out = FunctionCall(VStr(<<"x">>), VDict(<<>>))
       /\ \A nl \in NameLits, il \in InputLits :
            codec_text = pre \o Block(Mapping(nl, il)) \o WellTrailer =>
               codec_out.kind \in {"Invoke", "Finish"}

\* C12 as amended: the first delimited block in text order alone gives the
\* outcome of decode: one Action, of that block's name or result, when its
\* blob is well-formed, a decode error when it is malformed, whatever blocks
\* follow it.
C12_FirstBlockDecides ==
  Decoded =>
    \A pre \in Surround, post \in Trailers :
       /\ \A b \in MalformedBlobs :
            codec_text = pre \o Block(b) \o post => codec_out.kind = "raise"
       /\ \A nl \in NameLits, il \in InputLits :
            codec_text = pre \o Block(Mapping(nl, il)) \o post =>
               /\ codec_out.kind \in {"Invoke", "Finish"}
               /\ codec_out.kind = "Invoke" => codec_out.name = Denotes(nl)
               /\ codec_out.kind = "Finish" => codec_out.arg = Denotes(il)

C12_Witness ==
  /\ Decoded
  /\ codec_text = Block(Mapping(Quoted("Final Answer"), Quoted("x")))
                     \o WellTrailer
  /\ codec_out = AgentFinish(VStr(<<"x">>))

\* C16: a well-formed blob decodes to Finish(result = action_input) exactly
\* when its action is the string 'Final Answer'; with any other action it
\* decodes to an Invoke whose name is that action value as it was written.
C16_Classification ==
  Decoded =>
    \A pre \in Surround, post \in Trailers :
       \A nl \in NameLits, il \in InputLits :
          codec_text = pre \o Block(Mapping(nl, il)) \o post =>
             IF Denotes(nl) = VStr(<<"Final Answer">>)
             THEN codec_out = AgentFinish(Denotes(il))
             ELSE codec_out.kind = "Invoke" /\ codec_out.name = Denotes(nl)

C16_Witness ==
  /\ Decoded
  /\ codec_out.kind = "Invoke"
  /\ codec_out.name = VStr(<<"x", DQ>>)

\* the entries of a log that the projection shows
Kept(log) == {j \in 1..Len(log) : log[j].kind \in {"Message", "Result"}}

Rank(log, j) == Cardinality({i \in Kept(log) : i <= j})

Shown(entry) ==
  IF entry.kind = "Message" THEN entry
  ELSE Message("system", <<"Observation: ">> \o Str(entry.val))

Projected ==
  prompt_pc \in {"once", "twice"} =>
    /\ Len(prompt_out) = Cardinality(Kept(prompt_log))
    /\ \A j \in Kept(prompt_log) :
         prompt_out[Rank(prompt_log, j)] = Shown(prompt_log[j])
    /\ prompt_pc = "twice" => prompt_out = prompt_first

\* C13: prompt_generator leaves the log as it is and returns, in the order of
\* the log, every Message entry unchanged and for every Result entry a system
\* message "Observation: <result>", with no message for an Invoke or Finish
\* entry; a second projection of the log returns the same list.
C13_Projection == [][prompt_log' = prompt_log /\ Projected']_vars

C13_Witness ==
  /\ prompt_pc = "twice"
  /\ Len(prompt_log) = 3
  /\ prompt_log[1].kind = "Result"
  /\ prompt_log[2].kind = "Finish"
  /\ prompt_log[3].kind = "Message"
  /\ prompt_out[1].content = <<"Observation: ", DIGIT, DIGIT>>

\* run executed alone on a log with a script of replies, as far as the script
\* reaches: the log, the position, the error and the invocations it ends with
Outcome_of(log, at, error, n) ==
  [message_log |-> log, pc |-> at, err |-> error, calls |-> n]

RECURSIVE LoopAlone(_, _, _, _)
LoopAlone(log, i, n, replies) ==
  IF ~range_has_next(i, n) THEN Outcome_of(log, "returned", "", i)
  ELSE IF LastIsFinish(log) THEN Outcome_of(log, "returned", "", i)
  ELSE IF i + 1 > Len(replies) THEN Outcome_of(log, "loop", "", i)
  ELSE LET out == llm_program_invoke(log, replies[i + 1])
       IN IF out.raised
          THEN Outcome_of(log, on_exception(out.exc).pc,
                          on_exception(out.exc).err, i + 1)
          ELSE LoopAlone(add_messages(log, out.messages), i + 1, n, replies)

RunAlone(log, n, replies) ==
  IF precondition_fails(log)
  THEN Outcome_of(log, "raised", "AssertionError", 0)
  ELSE LoopAlone(log, 0, n, replies)

RepliesOf(h) == [k \in 1..Len(h) |-> h[k].reply]

\* C14: of two runs on logs of their own, under every interleaving, each ends
\* with the log, the result and the model invocations it has when it is
\* executed alone with the same replies, and its invocations stay within its
\* own max_iterations.
C14_NoInterference ==
  \A r \in DOMAIN runs :
     LET run == runs[r]
         alone == RunAlone(run.seed, run.max_iterations, RepliesOf(run.hist))
     IN /\ run.calls <= run.max_iterations
        /\ run.message_log = alone.message_log
        /\ run.calls = alone.calls
        /\ run.pc \in {"returned", "raised"} =>
             run.pc = alone.pc /\ run.err = alone.err

C14_Witness ==
  /\ DOMAIN runs = RunIds
  /\ runs[1].pc = "returned" /\ runs[1].calls = 2
  /\ runs[2].pc = "raised" /\ runs[2].calls = 2
  /\ runs[1].max_iterations = 2

EndsInFinish(log) == Len(log) > 0 /\ log[Len(log)].kind = "Finish"

Max0(n) == IF n > 0 THEN n ELSE 0

\* C15: while the last entry of the log is a Finish, run invokes no model and
\* appends nothing, and the pass that finds it there ends run; on a seed that
\* ends in a Finish run makes no model invocation and leaves the log as it is.
C15_FinishTerminal ==
  [][/\ EndsInFinish(message_log) =>
          /\ calls' = calls
          /\ message_log' = message_log
          /\ pc = "loop" => pc' = "returned"
     /\ EndsInFinish(seed') => calls' = 0 /\ message_log' = seed']_vars

C15_Witness ==
  /\ pc = "returned"
  /\ EndsInFinish(seed)
  /\ max_iterations = MaxIter
  /\ iter = 1

\* C17: run stops, whatever the model emits, and in one of three ways: with
\* an error, with a Finish as the last entry, or with the iteration budget
\* used up; it never begins more passes than max_iterations.
C17_Terminates ==
  /\ <>Stopped
  /\ [](iter <= Max0(max_iterations))
  /\ [](Stopped =>
          \/ pc = "raised" /\ err # ""
          \/ pc = "returned" /\ err = "" /\ EndsInFinish(message_log)
          \/ pc = "returned" /\ err = "" /\ ~EndsInFinish(message_log)
             /\ iter = Max0(max_iterations))

C17_Witness ==
  /\ pc = "returned"
  /\ Len(seed) > 0
  /\ ~EndsInFinish(message_log)
  /\ max_iterations = MaxIter
  /\ iter = MaxIter

FinishOnLastPass ==
  /\ max_iterations >= 1
  /\ Len(hist) = max_iterations
  /\ hist[max_iterations].reply.shape = "finish"

\* C18 as stated: when run has returned, the last entry is a Finish or exactly
\* max_iterations model invocations were made; a Finish produced by the
\* max_iterations-th invocation is the last entry when run returns, with no
\* further invocation.
C18_AsStated ==
  /\ pc = "returned" =>
        EndsInFinish(message_log) \/ calls = max_iterations
  /\ FinishOnLastPass =>
        /\ calls = max_iterations /\ EndsInFinish(message_log)
        /\ err = "" /\ pc \in {"loop", "returned"}

\* C18 as amended: when run has returned, the last entry is a Finish or
\* exactly max(max_iterations, 0) model invocations were made; a Finish
\* produced by the max_iterations-th invocation is the last entry when run
\* returns, with no further invocation.
C18_NormalReturn ==
  /\ pc = "returned" =>
        EndsInFinish(message_log) \/ calls = Max0(max_iterations)
  /\ FinishOnLastPass =>
        /\ calls = max_iterations /\ EndsInFinish(message_log)
        /\ err = "" /\ pc \in {"loop", "returned"}

C18_Witness ==
  /\ pc = "returned"
  /\ max_iterations = MaxIter
  /\ FinishOnLastPass

\* C19: a Finish that is not the last entry does not stop run: while the last
\* entry is not a Finish and the budget is not used up the next step is a
\* model invocation, and run returns only with a Finish last or with the
\* budget used up.
C19_OnlyLastInspected ==
  [][/\ (/\ pc = "loop" /\ iter < max_iterations
         /\ Len(message_log) > 0 /\ ~EndsInFinish(message_log)) =>
          calls' = calls + 1
     /\ pc' = "returned" =>
          EndsInFinish(message_log') \/ iter' >= max_iterations']_vars

C19_Witness ==
  /\ pc = "returned"
  /\ Len(message_log) > 2
  /\ message_log[1].kind = "Finish"
  /\ ~EndsInFinish(message_log)
  /\ calls = max_iterations
  /\ max_iterations >= 2

\* C20: with max_iterations <= 0 run begins no pass: on a non-empty log it
\* returns with no model invocation and the log as it was, whatever the last
\* entry is, and on an empty log it raises the precondition error.
C20_ZeroBudget ==
  max_iterations <= 0 =>
    /\ calls = 0 /\ hist = <<>> /\ iter = 0
    /\ message_log = seed
    /\ pc # "start" =>
         IF Len(seed) = 0
         THEN pc = "raised" /\ err = "AssertionError"
         ELSE pc \in {"loop", "returned"} /\ err = ""

C20_Witness ==
  /\ pc = "returned"
  /\ max_iterations < 0
  /\ EndsInFinish(seed)

====
